---- MODULE Spec2Model ----
(***************************************************************************)
(* nss-tlsd: the per-connection query pipeline of src/nss-tlsd.c.          *)
(*                                                                         *)
(* One session per accepted connection.  The callbacks on_incoming,        *)
(* on_req, on_res and on_done run on a single GLib main loop, one at a     *)
(* time; each is one action here.  The peer of the local socket, the DoH   *)
(* resolver (through libsoup) and the passage of time are the environment. *)
(***************************************************************************)
EXTENDS Integers, Sequences, FiniteSets, TLC

(***************************************************************************)
(* Bounds of the model.                                                    *)
(***************************************************************************)
\* number of connections the listener accepts in one run
MaxSessions == 2
\* longest "Answer" array the resolver returns
MaxAnswers == 2
\* longest "Answer" array in the runs that explore the scan of the array
MaxScan == 3

Sessions == 1..MaxSessions

(***************************************************************************)
(* Program constants.                                                      *)
(***************************************************************************)
\* <sys/socket.h> values of the two families on_req switches on
AF_INET == 2
AF_INET6 == 10
\* DNS record type codes on_req stores in query->type
TYPE_A == 1
TYPE_AAAA == 28
\* sizes of an IPv4 and an IPv6 address (NS_INADDRSZ, NS_IN6ADDRSZ)
INADDRSZ == 4
IN6ADDRSZ == 16
\* sizeof(struct nss_tls_res): the address buffer holds the larger address
ResSize == 16
\* sizeof(struct nss_tls_req), scaled down: only its comparison with the
\* number of bytes read matters (on_req line 220)
ReqSize == 2

(***************************************************************************)
(* Text of an address: a sequence of one-character strings.                *)
(***************************************************************************)
Digits == <<"0", "1", "2", "3", "4", "5", "6", "7", "8", "9">>
HexDigits == Digits \o <<"a", "b", "c", "d", "e", "f">>

\* value of a digit character in a table of digits, -1 when it is none
DigitVal(tab, ch) ==
    IF \E i \in 1..Len(tab) : tab[i] = ch
    THEN (CHOOSE i \in 1..Len(tab) : tab[i] = ch) - 1
    ELSE -1

Zeros(n) == [i \in 1..n |-> 0]

\* the text from position i on
Rest(src, i) == SubSeq(src, i, Len(src))

(***************************************************************************)
(* inet_pton(AF_INET, ...): dotted decimal, exactly four octets, each at   *)
(* most 255, no leading zero, nothing else.  The result is <<>> on failure *)
(* and the four bytes on success.                                          *)
(***************************************************************************)
RECURSIVE pton4_scan(_, _, _, _, _)
pton4_scan(src, i, done, val, saw) ==
    IF i > Len(src)
    THEN IF saw /\ Len(done) = INADDRSZ - 1 THEN Append(done, val) ELSE <<>>
    ELSE LET ch == src[i]
             d == DigitVal(Digits, ch)
         IN  IF d >= 0
             THEN IF saw /\ val = 0 THEN <<>>
                  ELSE IF val * 10 + d > 255 THEN <<>>
                  ELSE IF ~saw /\ Len(done) = INADDRSZ THEN <<>>
                  ELSE pton4_scan(src, i + 1, done, val * 10 + d, TRUE)
             ELSE IF ch = "." /\ saw
                  THEN IF Len(done) = INADDRSZ - 1 THEN <<>>
                       ELSE pton4_scan(src, i + 1, Append(done, val), 0, FALSE)
                  ELSE <<>>

inet_pton4(src) == pton4_scan(src, 1, <<>>, 0, FALSE)

(***************************************************************************)
(* inet_pton(AF_INET6, ...): groups of up to four hex digits separated by  *)
(* ":", at most one "::", an optional dotted-decimal tail.  tp is the      *)
(* bytes stored so far, colonp the position of "::" in them (-1: none).    *)
(***************************************************************************)
pton6_finish(tp, colonp) ==
    IF colonp >= 0
    THEN IF Len(tp) = IN6ADDRSZ THEN <<>>
         ELSE SubSeq(tp, 1, colonp) \o Zeros(IN6ADDRSZ - Len(tp))
                  \o SubSeq(tp, colonp + 1, Len(tp))
    ELSE IF Len(tp) = IN6ADDRSZ THEN tp ELSE <<>>

RECURSIVE pton6_scan(_, _, _, _, _, _, _)
pton6_scan(src, i, curtok, tp, colonp, val, ndig) ==
    IF i > Len(src)
    THEN IF ndig > 0
         THEN IF Len(tp) + 2 > IN6ADDRSZ THEN <<>>
              ELSE pton6_finish(tp \o <<val \div 256, val % 256>>, colonp)
         ELSE pton6_finish(tp, colonp)
    ELSE LET ch == src[i]
             d == DigitVal(HexDigits, ch)
         IN  IF d >= 0
             THEN IF ndig + 1 > 4 THEN <<>>
                  ELSE pton6_scan(src, i + 1, curtok, tp, colonp,
                                  val * 16 + d, ndig + 1)
             ELSE IF ch = ":"
             THEN IF ndig = 0
                  THEN IF colonp >= 0 THEN <<>>
                       ELSE pton6_scan(src, i + 1, i + 1, tp, Len(tp), 0, 0)
                  ELSE IF i = Len(src) THEN <<>>
                  ELSE IF Len(tp) + 2 > IN6ADDRSZ THEN <<>>
                  ELSE pton6_scan(src, i + 1, i + 1,
                                  tp \o <<val \div 256, val % 256>>,
                                  colonp, 0, 0)
             ELSE IF ch = "." /\ Len(tp) + INADDRSZ <= IN6ADDRSZ
                     /\ inet_pton4(Rest(src, curtok)) # <<>>
             THEN pton6_finish(tp \o inet_pton4(Rest(src, curtok)), colonp)
             ELSE <<>>

inet_pton6(src) ==
    IF Len(src) >= 1 /\ src[1] = ":"
    THEN IF Len(src) >= 2 /\ src[2] = ":"
         THEN pton6_scan(src, 2, 2, <<>>, -1, 0, 0)
         ELSE <<>>
    ELSE pton6_scan(src, 1, 1, <<>>, -1, 0, 0)

(***************************************************************************)
(* inet_pton(af, s, dst) as on_answer calls it: rc is its return value     *)
(* (1 parsed, 0 not an address of the family, -1 unsupported family) and   *)
(* dst the destination afterwards, written only on success and only in its *)
(* first 4 resp. 16 bytes.                                                 *)
(***************************************************************************)
Overlay(dst, bytes) ==
    [i \in 1..Len(dst) |-> IF i <= Len(bytes) THEN bytes[i] ELSE dst[i]]

inet_pton(af, s, dst) ==
    IF af \notin {AF_INET, AF_INET6}
    THEN [rc |-> -1, dst |-> dst]
    ELSE LET bytes == IF af = AF_INET THEN inet_pton4(s) ELSE inet_pton6(s)
         IN  IF bytes = <<>>
             THEN [rc |-> 0, dst |-> dst]
             ELSE [rc |-> 1, dst |-> Overlay(dst, bytes)]

(***************************************************************************)
(* The resolver's reply as libsoup and json-glib present it to on_res.     *)
(*                                                                         *)
(* net: "error" when soup_session_send_finish returns NULL (a transport    *)
(* failure), "ok" when it returns the body stream.  libsoup returns the    *)
(* stream for every HTTP reply, whatever its status; on_res has no handle  *)
(* on the message and never sees the status.                               *)
(* body.kind: "garbage" (json_parser_load_from_stream fails), "value" (the *)
(* root is no object), "object".  body.answer: the "Answer" member of the  *)
(* root object is "absent", "notarray" or "array"; body.elems its elements.*)
(* An element: obj (it is a JSON object), hasType/type (its "type" member  *)
(* and json_node_get_int of it), hasData/isStr/data (its "data" member,    *)
(* whether it holds a string, and the string).                             *)
(***************************************************************************)
T4a == <<"9", "3", ".", "1", "8", "4", ".", "2", "1", "6", ".", "3", "4">>
T4b == <<"1", "0", ".", "0", ".", "0", ".", "7">>
T6a == <<":", ":", "1">>
T6b == <<"2", "0", "0", "1", ":", "d", "b", "8", ":", ":", "2">>
Tbad == <<"n", "o", "p", "e">>
Texts == {T4a, T4b, T6a, T6b, Tbad}

\* record types the resolver sends: A, AAAA and one other (CNAME)
RecordTypes == {TYPE_A, TYPE_AAAA, 5}

NoText == <<>>

Elements ==
    {[obj |-> FALSE, hasType |-> FALSE, type |-> 0,
      hasData |-> FALSE, isStr |-> FALSE, data |-> NoText]}
    \cup {[obj |-> TRUE, hasType |-> FALSE, type |-> 0,
           hasData |-> TRUE, isStr |-> TRUE, data |-> t] : t \in {T4a, T6a}}
    \cup {[obj |-> TRUE, hasType |-> TRUE, type |-> ty,
           hasData |-> FALSE, isStr |-> FALSE, data |-> NoText]
             : ty \in {TYPE_A, TYPE_AAAA}}
    \cup {[obj |-> TRUE, hasType |-> TRUE, type |-> ty,
           hasData |-> TRUE, isStr |-> FALSE, data |-> NoText]
             : ty \in {TYPE_A, TYPE_AAAA}}
    \cup {[obj |-> TRUE, hasType |-> TRUE, type |-> ty,
           hasData |-> TRUE, isStr |-> TRUE, data |-> t]
             : ty \in RecordTypes, t \in Texts}

Arrays == UNION {[1..n -> Elements] : n \in 0..MaxAnswers}

NoElems == <<>>

NoBody == [kind |-> "garbage", answer |-> "absent", elems |-> NoElems]

Bodies ==
    {NoBody,
     [kind |-> "value", answer |-> "absent", elems |-> NoElems],
     [kind |-> "object", answer |-> "absent", elems |-> NoElems],
     [kind |-> "object", answer |-> "notarray", elems |-> NoElems]}
    \cup {[kind |-> "object", answer |-> "array", elems |-> a] : a \in Arrays}

\* HTTP statuses of a reply: success and a server error
Statuses == {200, 500}

Replies ==
    {[net |-> "error", status |-> 0, body |-> NoBody]}
    \cup {[net |-> "ok", status |-> st, body |-> b]
             : st \in Statuses, b \in Bodies}

(***************************************************************************)
(* Replies for the scan of the array: status 200, an "Answer" array of up  *)
(* to MaxScan records taken from: A records with two IPv4 texts, a text    *)
(* that is no address and an IPv6 text; AAAA records with two IPv6 texts   *)
(* and a text that is no address; a CNAME record; a record without "type"; *)
(* A and AAAA records without "data"; an A record whose "data" is no       *)
(* string.                                                                 *)
(***************************************************************************)
ScanElements ==
    {e \in Elements :
        \/ e.obj /\ ~e.hasType /\ e.data = T4a
        \/ e.hasType /\ ~e.hasData
        \/ e.hasType /\ e.hasData /\ ~e.isStr /\ e.type = TYPE_A
        \/ e.hasType /\ e.isStr /\ e.type = TYPE_A
              /\ e.data \in {T4a, T4b, Tbad, T6a}
        \/ e.hasType /\ e.isStr /\ e.type = TYPE_AAAA
              /\ e.data \in {T6a, T6b, Tbad}
        \/ e.hasType /\ e.isStr /\ e.type \notin {TYPE_A, TYPE_AAAA}
              /\ e.data = T4a}

ScanArrays == UNION {[1..n -> ScanElements] : n \in 0..MaxScan}

ScanReplies ==
    {[net |-> "ok", status |-> 200,
      body |-> [kind |-> "object", answer |-> "array", elems |-> a]]
        : a \in ScanArrays}

(***************************************************************************)
(* struct nss_tls_query, as g_new0 leaves it.                              *)
(***************************************************************************)
\* the record as g_new would leave it: not cleared
NewQuery_uninit ==
    [af |-> 0, type |-> 0, ok |-> FALSE, addr |-> [i \in 1..ResSize |-> 170]]

NewQuery == [af |-> 0, type |-> 0, ok |-> FALSE, addr |-> Zeros(ResSize)]

\* on_answer without the comparison of the record's type (lines 87-90)
on_answer_anytype(q, e) ==
    IF ~e.obj \/ ~e.hasType THEN q
    ELSE IF ~e.hasData THEN q
    ELSE IF ~e.isStr THEN q
    ELSE LET r == inet_pton(q.af, e.data, q.addr)
         IN  IF r.rc # 0
             THEN [q EXCEPT !.addr = r.dst, !.ok = TRUE]
             ELSE q

\* on_answer for which data that does not parse is fatal: it clears
\* query->ok
on_answer_fatal(q, e) ==
    IF ~e.obj \/ ~e.hasType THEN q
    ELSE IF e.type # q.type THEN q
    ELSE IF ~e.hasData THEN q
    ELSE IF ~e.isStr THEN q
    ELSE LET r == inet_pton(q.af, e.data, q.addr)
         IN  IF r.rc # 0
             THEN [q EXCEPT !.addr = r.dst, !.ok = TRUE]
             ELSE [q EXCEPT !.ok = FALSE]

\* on_answer taking a record without "type" for one of the wanted type
on_answer_notype(q, e) ==
    IF ~e.obj THEN q
    ELSE IF e.hasType /\ e.type # q.type THEN q
    ELSE IF ~e.hasData THEN q
    ELSE IF ~e.isStr THEN q
    ELSE LET r == inet_pton(q.af, e.data, q.addr)
         IN  IF r.rc # 0
             THEN [q EXCEPT !.addr = r.dst, !.ok = TRUE]
             ELSE q

\* on_answer stopping at the first record that parsed (first match wins)
on_answer_first(q, e) ==
    IF q.ok THEN q
    ELSE IF ~e.obj \/ ~e.hasType THEN q
    ELSE IF e.type # q.type THEN q
    ELSE IF ~e.hasData THEN q
    ELSE IF ~e.isStr THEN q
    ELSE LET r == inet_pton(q.af, e.data, q.addr)
         IN  IF r.rc # 0
             THEN [q EXCEPT !.addr = r.dst, !.ok = TRUE]
             ELSE q

\* on_answer that stores the address and forgets query->ok = TRUE
on_answer_noflag(q, e) ==
    IF ~e.obj \/ ~e.hasType THEN q
    ELSE IF e.type # q.type THEN q
    ELSE IF ~e.hasData THEN q
    ELSE IF ~e.isStr THEN q
    ELSE [q EXCEPT !.addr = inet_pton(q.af, e.data, q.addr).dst]

(***************************************************************************)
(* on_answer: one element of the "Answer" array against the query.         *)
(***************************************************************************)
on_answer(q, e) ==
    IF ~e.obj \/ ~e.hasType THEN q
    ELSE IF e.type # q.type THEN q
    ELSE IF ~e.hasData THEN q
    ELSE IF ~e.isStr THEN q
    ELSE LET r == inet_pton(q.af, e.data, q.addr)
         IN  IF r.rc # 0
             THEN [q EXCEPT !.addr = r.dst, !.ok = TRUE]
             ELSE q

\* json_array_foreach_element (answers, on_answer, query): in array order
RECURSIVE json_array_foreach_element(_, _, _)
json_array_foreach_element(elems, i, q) ==
    IF i > Len(elems) THEN q
    ELSE json_array_foreach_element(elems, i + 1, on_answer(q, elems[i]))

(***************************************************************************)
(* on_res up to its fail label: where it stops and what it leaves in the   *)
(* query.  step is "transport", "parse", "root", "answer" for the four     *)
(* goto fail, "scan" when the array was scanned.                           *)
(***************************************************************************)
\* soup_session_send_finish returned a stream
SendFinish(reply) == reply.net = "ok"

\* on_res without the check of the "Answer" member (lines 160-164)
ResStep_noAnswerCheck(reply) ==
    IF ~SendFinish(reply) THEN "transport"
    ELSE IF reply.body.kind = "garbage" THEN "parse"
    ELSE IF reply.body.kind # "object" THEN "root"
    ELSE "scan"

ResStep(reply) ==
    IF ~SendFinish(reply) THEN "transport"
    ELSE IF reply.body.kind = "garbage" THEN "parse"
    ELSE IF reply.body.kind # "object" THEN "root"
    ELSE IF reply.body.answer # "array" THEN "answer"
    ELSE "scan"

on_res(q, reply) ==
    LET q0 == [q EXCEPT !.ok = FALSE]
        step == ResStep(reply)
        q1 == IF step = "scan"
              THEN json_array_foreach_element(reply.body.elems, 1, q0)
              ELSE q0
    IN  [q |-> q1, step |-> step]

\* on_res starting the write without looking at query->ok
StartsWrite_always(r) == r.step = "scan"

\* line 168: the response write is started
StartsWrite(r) == r.step = "scan" /\ r.q.ok
\* on_res without the return at lines 183-184: it releases on every path
ResReleases_always(r) == TRUE

\* lines 183-191: on_res releases the connection and the query itself
ResReleases(r) == ~r.q.ok

(***************************************************************************)
(* on_req up to its fail label.  The read was started by on_incoming with  *)
(* count = sizeof(query->req): it never stores more than ReqSize bytes,    *)
(* whatever the peer sends.                                                *)
(***************************************************************************)
\* a read that is not limited to the size of the request
ReadLen_all(n) == n

\* bytes g_input_stream_read_all_async stores of the n bytes the peer sends
ReadLen(n) == IF n > ReqSize THEN ReqSize ELSE n

\* the switch with AAAA as its default label
TypeOf_default(af) == IF af = AF_INET THEN TYPE_A ELSE TYPE_AAAA

\* query->type for a family (switch, lines 227-242); 0: the default label
TypeOf(af) ==
    IF af = AF_INET THEN TYPE_A
    ELSE IF af = AF_INET6 THEN TYPE_AAAA
    ELSE 0

\* step is "read", "size", "family" for the three goto fail, "send" when the
\* HTTPS request was issued
ReqStep(readOk, len, af) ==
    IF ~readOk THEN "read"
    ELSE IF len # ReqSize THEN "size"
    ELSE IF TypeOf(af) = 0 THEN "family"
    ELSE "send"

on_req(q, readOk, len, af) ==
    LET step == ReqStep(readOk, len, af)
        \* the read stored the family only if the whole frame arrived
        q0 == IF len = ReqSize THEN [q EXCEPT !.af = af] ELSE q
    IN  [q |-> IF step = "send" THEN [q0 EXCEPT !.type = TypeOf(af)] ELSE q0,
         step |-> step]

\* the "type" parameter of the URL on_req builds (lines 231, 237)
Mnemonic(af) ==
    IF af = AF_INET THEN "A"
    ELSE IF af = AF_INET6 THEN "AAAA"
    ELSE ""

\* objects on_req creates: the GError of a failed read, the SoupSession and
\* the SoupMessage of the request (lines 246-247)
ReqCreates(step) ==
    CASE step = "read" -> {"err"}
      [] step = "send" -> {"sess", "msg"}
      [] OTHER -> {}

\* objects on_req releases: g_error_free (err), line 213, nothing else
ReqFrees(step) == IF step = "read" THEN {"err"} ELSE {}

\* objects on_res creates: the stream soup_session_send_finish returns, the
\* JsonParser, the GError of a failed send or parse
ResCreates(step) ==
    CASE step = "transport" -> {"err"}
      [] step = "parse" -> {"in", "j", "err"}
      [] OTHER -> {"in", "j"}

\* objects on_res releases at its fail label: the parser (lines 180-181)
\* and, past the return of line 184, the GError (lines 186-188)
ResFrees(r) == {"j"} \cup (IF ~r.q.ok THEN {"err"} ELSE {})

\* the query as on_req hands it to on_res
QueryAtRes(af) == on_req(NewQuery, TRUE, ReqSize, af).q

(***************************************************************************)
(* The results of on_res over every reply the resolver can give, per       *)
(* family of the request.                                                  *)
(***************************************************************************)
ResResults ==
    [af \in {AF_INET, AF_INET6} |->
        {on_res(QueryAtRes(af), reply) : reply \in Replies}]

ResResultsOf(q) ==
    IF q.af \in {AF_INET, AF_INET6} /\ q = QueryAtRes(q.af)
    THEN ResResults[q.af]
    ELSE {on_res(q, reply) : reply \in Replies}

\* no particular reply: the resolver answers each request as it likes
AnyReply == [net |-> "any", status |-> 0, body |-> NoBody]

(***************************************************************************)
(* State.                                                                  *)
(*                                                                         *)
(* pending[s] the callbacks of session s the main loop has still to call,  *)
(*            one per asynchronous operation in flight: "on_req" (the      *)
(*            read), "on_res" (the HTTPS GET), "on_done" (the write)       *)
(* query[s]   the session's struct nss_tls_query                           *)
(* unrefs[s]  calls of g_object_unref (query->connection)                  *)
(* frees[s]   calls of g_free (query)                                      *)
(* io[s]      asynchronous operations started: reads, gets, writes         *)
(* sent[s]    the bytes the peer has received on the connection            *)
(* why[s]     how the session ended, set where it is released: "ok" (the   *)
(*            response was written in full) or the step that failed;       *)
(*            "none" before                                                *)
(* timedOut[s] NSS_TLS_TIMEOUT has passed on the connection's socket       *)
(*            during the step the session is in                            *)
(* frame[s]   the request the peer sent: "short", "exact", "long", or      *)
(*            "error" when the read failed; "none" before                  *)
(* peers      how many peers connect                                       *)
(* resolver   the reply of the resolver to a request, when it is fixed     *)
(*            for the run; AnyReply when it is not                         *)
(* url[s]     the "type" parameter of the URL on_req requested ("" before) *)
(* live[s]    the objects the session's callbacks created, besides the     *)
(*            connection and the query, and have not released: "sess" (the *)
(*            SoupSession), "msg" (the SoupMessage), "in" (the stream of   *)
(*            the reply), "j" (the JsonParser), "err" (a GError)           *)
(***************************************************************************)
VARIABLES pending, query, unrefs, frees, io, sent, why, timedOut, frame,
          peers, resolver, url, live

vars == <<pending, query, unrefs, frees, io, sent, why, timedOut, frame,
          peers, resolver, url, live>>

\* families a peer puts in its request: the two supported, AF_UNSPEC, AF_UNIX
Families == {AF_INET, AF_INET6, 0, 1}

InitSessions ==
    /\ pending = [s \in Sessions |-> {}]
    /\ query = [s \in Sessions |-> NewQuery]
    /\ unrefs = [s \in Sessions |-> 0]
    /\ frees = [s \in Sessions |-> 0]
    /\ io = [s \in Sessions |-> [reads |-> 0, gets |-> 0, writes |-> 0]]
    /\ sent = [s \in Sessions |-> <<>>]
    /\ why = [s \in Sessions |-> "none"]
    /\ timedOut = [s \in Sessions |-> FALSE]
    /\ frame = [s \in Sessions |-> "none"]
    /\ url = [s \in Sessions |-> ""]
    /\ live = [s \in Sessions |-> {}]

\* any number of sessions up to MaxSessions, any reply to each request
Init ==
    /\ InitSessions
    /\ peers = MaxSessions
    /\ resolver = AnyReply

\* one session, against each reply of the resolver
InitReply ==
    /\ InitSessions
    /\ peers = 1
    /\ resolver \in Replies

\* on_incoming has run for connection s
Accepted(s) == io[s].reads > 0

\* the query kept in one static record shared by the sessions: a release
\* drops the connection of the session accepted first
Release_shared(s, reason) ==
    /\ unrefs' = [unrefs EXCEPT ![1] = @ + 1]
    /\ frees' = [frees EXCEPT ![1] = @ + 1]
    /\ why' = [why EXCEPT ![s] = reason]

\* g_object_unref (query->connection); g_free (query);
Release(s, reason) ==
    /\ unrefs' = [unrefs EXCEPT ![s] = @ + 1]
    /\ frees' = [frees EXCEPT ![s] = @ + 1]
    /\ why' = [why EXCEPT ![s] = reason]

\* a callback that stays registered after it ran (its operation restarted)
Returns_keep(s, cb, started) ==
    /\ pending' = [pending EXCEPT ![s] = @ \cup started]
    /\ timedOut' = [timedOut EXCEPT ![s] = FALSE]

\* callback cb of session s returns, having started the operations whose
\* callbacks are in `started`; a new wait begins
Returns(s, cb, started) ==
    /\ pending' = [pending EXCEPT ![s] = (@ \ {cb}) \cup started]
    /\ timedOut' = [timedOut EXCEPT ![s] = FALSE]

(***************************************************************************)
(* on_incoming: the listener accepted connection s (connections are        *)
(* numbered in the order they are accepted).                               *)
(***************************************************************************)
OnIncoming(s) ==
    /\ ~Accepted(s)
    /\ s <= peers
    /\ IF s = 1 THEN TRUE ELSE Accepted(s - 1)
    /\ query' = [query EXCEPT ![s] = NewQuery]
    /\ io' = [io EXCEPT ![s].reads = @ + 1]
    /\ Returns(s, "on_incoming", {"on_req"})
    /\ UNCHANGED <<unrefs, frees, sent, why, frame, peers, resolver, url,
                   live>>

(***************************************************************************)
(* g_socket_set_timeout (s, NSS_TLS_TIMEOUT): the time passes with nothing *)
(* moving on the connection's socket.  A read or write pending on the      *)
(* socket then fails with G_IO_ERROR_TIMED_OUT (see OnReq, OnDone); the    *)
(* HTTPS request is on another socket, which libsoup owns.                 *)
(***************************************************************************)
SocketTimeout(s) ==
    /\ pending[s] # {}
    /\ ~timedOut[s]
    /\ timedOut' = [timedOut EXCEPT ![s] = TRUE]
    /\ UNCHANGED <<pending, query, unrefs, frees, io, sent, why, frame,
                   peers, resolver, url, live>>

FrameClass(readOk, n) ==
    IF ~readOk THEN "error"
    ELSE IF n < ReqSize THEN "short"
    ELSE IF n = ReqSize THEN "exact"
    ELSE "long"

(***************************************************************************)
(* on_req: the read of the request completed.  The peer sent n bytes (and  *)
(* closed, if fewer than a frame) carrying family af, or the read failed;  *)
(* it fails when the socket timed out.                                     *)
(***************************************************************************)
OnReq(s) ==
    /\ "on_req" \in pending[s]
    /\ \E readOk \in BOOLEAN, n \in 0..(ReqSize + 1), af \in Families :
          /\ timedOut[s] => ~readOk
          /\ LET r == on_req(query[s], readOk, ReadLen(n), af)
             IN  /\ query' = [query EXCEPT ![s] = r.q]
                 /\ frame' = [frame EXCEPT ![s] = FrameClass(readOk, n)]
                 /\ live' = [live EXCEPT ![s] =
                                 (@ \cup ReqCreates(r.step)) \ ReqFrees(r.step)]
                 /\ IF r.step = "send"
                    THEN /\ io' = [io EXCEPT ![s].gets = @ + 1]
                         /\ url' = [url EXCEPT ![s] = Mnemonic(r.q.af)]
                         /\ Returns(s, "on_req", {"on_res"})
                         /\ UNCHANGED <<unrefs, frees, why>>
                    ELSE /\ Release(s, r.step)
                         /\ Returns(s, "on_req", {})
                         /\ UNCHANGED <<io, url>>
    /\ UNCHANGED <<sent, peers, resolver>>

(***************************************************************************)
(* on_res: the HTTPS request completed, with a reply of the resolver or a  *)
(* transport failure.                                                      *)
(***************************************************************************)
OnRes(s) ==
    /\ "on_res" \in pending[s]
    /\ \E r \in IF resolver = AnyReply
                THEN ResResultsOf(query[s])
                ELSE {on_res(query[s], resolver)} :
          /\ query' = [query EXCEPT ![s] = r.q]
          /\ live' = [live EXCEPT ![s] =
                          (@ \cup ResCreates(r.step)) \ ResFrees(r)]
          /\ IF StartsWrite(r)
             THEN /\ io' = [io EXCEPT ![s].writes = @ + 1]
                  /\ Returns(s, "on_res", {"on_done"})
             ELSE /\ Returns(s, "on_res", {})
                  /\ UNCHANGED io
          /\ IF ResReleases(r)
             THEN Release(s, IF r.step = "scan" THEN "nomatch" ELSE r.step)
             ELSE UNCHANGED <<unrefs, frees, why>>
    /\ UNCHANGED <<sent, frame, peers, resolver, url>>

\* bytes that reached the peer when the write failed: none, or all but one
WriteFailLens == {0, ResSize - 1}

(***************************************************************************)
(* on_done: the write of the response completed.  All of &query->res was   *)
(* written, or the write failed after some of it; it fails when the socket *)
(* timed out.                                                              *)
(***************************************************************************)
OnDone(s) ==
    /\ "on_done" \in pending[s]
    /\ \E writeOk \in BOOLEAN, n \in WriteFailLens :
          /\ timedOut[s] => ~writeOk
          /\ sent' = [sent EXCEPT ![s] =
                         IF writeOk THEN query[s].addr
                         ELSE SubSeq(query[s].addr, 1, n)]
          /\ Release(s, IF writeOk THEN "ok" ELSE "write")
    /\ Returns(s, "on_done", {})
    /\ UNCHANGED <<query, io, frame, peers, resolver, url, live>>

\* one session, against each reply of the resolver that holds an array
InitScan ==
    /\ InitSessions
    /\ peers = 1
    /\ resolver \in ScanReplies

Next ==
    \E s \in Sessions :
        \/ OnIncoming(s)
        \/ SocketTimeout(s)
        \/ OnReq(s)
        \/ OnRes(s)
        \/ OnDone(s)

Spec == Init /\ [][Next]_vars

ReplySpec == InitReply /\ [][Next]_vars

ScanSpec == InitScan /\ [][Next]_vars

(***************************************************************************)
(* The states of a session (spec.md 4.3), read off the program's state.    *)
(***************************************************************************)
Released(s) == unrefs[s] > 0 \/ frees[s] > 0

Phase(s) ==
    IF ~Accepted(s) THEN "idle"
    ELSE IF Released(s) \/ pending[s] = {} THEN "Closed"
    ELSE IF "on_req" \in pending[s] THEN "AwaitingRequest"
    ELSE IF "on_res" \in pending[s] THEN "Resolving"
    ELSE "AwaitingWriteback"

ClosedSuccess(s) == Phase(s) = "Closed" /\ why[s] = "ok"
ClosedFailure(s) == Phase(s) = "Closed" /\ why[s] # "ok"

(***************************************************************************)
(* What a reply of the resolver holds for a session: the records of the    *)
(* wanted type, and among them those whose data is a string that is an     *)
(* address of the requested family.                                        *)
(***************************************************************************)
Supported == {AF_INET, AF_INET6}

ParsesAs(af, t) ==
    IF af = AF_INET THEN inet_pton4(t) # <<>> ELSE inet_pton6(t) # <<>>

\* the response frame for the address of text t: its bytes, then zeros
AddressOf(af, t) ==
    Overlay(Zeros(ResSize), IF af = AF_INET THEN inet_pton4(t) ELSE inet_pton6(t))

Typed(e, type) == e.obj /\ e.hasType /\ e.type = type

Valid(e, af, type) ==
    Typed(e, type) /\ e.hasData /\ e.isStr /\ ParsesAs(af, e.data)

Answers == resolver.body.elems

TypedAt(s) == {i \in 1..Len(Answers) : Typed(Answers[i], query[s].type)}

ValidAt(s) ==
    {i \in 1..Len(Answers) : Valid(Answers[i], query[s].af, query[s].type)}

Max(S) == CHOOSE x \in S : \A y \in S : y <= x
Min(S) == CHOOSE x \in S : \A y \in S : x <= y

AddressAt(s, i) == AddressOf(query[s].af, Answers[i].data)

\* the "Answer" array reached the scan
HasArray == resolver.net = "ok" /\ resolver.body.kind = "object"
               /\ resolver.body.answer = "array"

\* on_res has run for session s
Resolved(s) == io[s].gets > 0 /\ "on_res" \notin pending[s]

\* every callback of the session has run
Ended(s) == Accepted(s) /\ pending[s] = {}

(***************************************************************************)
(* C1: the session's connection reference and its query record are         *)
(* released exactly once: not before its last callback, once when the      *)
(* session has ended, never twice, on the success path and on every        *)
(* failure path.                                                           *)
(***************************************************************************)
C1_ReleasedExactlyOnce ==
    \A s \in Sessions :
        /\ unrefs[s] = frees[s]
        /\ unrefs[s] <= 1
        /\ pending[s] # {} => unrefs[s] = 0
        /\ Ended(s) => unrefs[s] = 1 /\ why[s] # "none"

\* one session released after its write, another after a scan that found
\* nothing
C1_Witness ==
    \E s, t \in Sessions :
        /\ why[s] = "ok" /\ unrefs[s] = 1 /\ frees[s] = 1
        /\ why[t] = "nomatch" /\ unrefs[t] = 1 /\ frees[t] = 1

(***************************************************************************)
(* C2: when resolution fails (malformed request, transport failure, parse  *)
(* failure, no record of the wanted type that parses, an empty array) the  *)
(* peer receives no byte; a write of the response is started only if a     *)
(* record of the wanted type parsed.                                       *)
(***************************************************************************)
C2_NoBytesOnFailure ==
    \A s \in Sessions :
        /\ why[s] \notin {"none", "ok", "write"}
              => sent[s] = <<>> /\ io[s].writes = 0
        /\ io[s].writes > 0 => HasArray /\ ValidAt(s) # {}
        /\ ~(HasArray /\ ValidAt(s) # {}) => sent[s] = <<>>

\* an IPv6 request against {"Answer": []}
C2_Witness ==
    \E s \in Sessions :
        /\ query[s].af = AF_INET6
        /\ HasArray /\ Answers = <<>> /\ resolver.status = 200
        /\ Ended(s) /\ why[s] = "nomatch" /\ sent[s] = <<>>

C4_UnsupportedFamilyAborts ==
    \A s \in Sessions :
        (frame[s] \in {"exact", "long"} /\ query[s].af \notin Supported)
            => /\ io[s].gets = 0 /\ io[s].writes = 0 /\ sent[s] = <<>>
               /\ Ended(s) /\ why[s] = "family"
               /\ unrefs[s] = 1 /\ frees[s] = 1

C4_Witness ==
    \E s \in Sessions :
        /\ frame[s] = "exact" /\ query[s].af \notin Supported
        /\ why[s] = "family" /\ io[s].gets = 0 /\ unrefs[s] = 1

(***************************************************************************)
(* C5: last match wins.  The address in the response is the address of the *)
(* last record, in array order, of the wanted type whose data parses as an *)
(* address of the requested family.                                        *)
(***************************************************************************)
C5_LastMatchWins ==
    \A s \in Sessions :
        /\ io[s].writes > 0
              => ValidAt(s) # {} /\ query[s].addr = AddressAt(s, Max(ValidAt(s)))
        /\ why[s] = "ok" => sent[s] = AddressAt(s, Max(ValidAt(s)))

\* two records parsed, with different addresses, and the last one was sent
C5_Witness ==
    \E s \in Sessions :
        /\ why[s] = "ok"
        /\ Cardinality(ValidAt(s)) >= 2
        /\ AddressAt(s, Min(ValidAt(s))) # AddressAt(s, Max(ValidAt(s)))
        /\ sent[s] = AddressAt(s, Max(ValidAt(s)))

(***************************************************************************)
(* C6: for a valid request and a reply (status 200) whose "Answer" array   *)
(* holds exactly one record of the wanted type, with a well-formed         *)
(* address: on_res starts the write of a response carrying that address;   *)
(* the connection is not released while the write is pending; the session  *)
(* ends only through on_done, and when the write completes the peer has    *)
(* the whole frame and the session is Closed(Success).  (A write that      *)
(* fails is Closed(Failure), spec.md 4.3 step 4.)                          *)
(***************************************************************************)
OneGoodRecord(s) ==
    /\ frame[s] = "exact" /\ query[s].af \in Supported
    /\ HasArray /\ resolver.status = 200
    /\ Cardinality(TypedAt(s)) = 1 /\ ValidAt(s) = TypedAt(s)

C6_OneRecordAnswered ==
    \A s \in Sessions :
        (OneGoodRecord(s) /\ Resolved(s))
            => /\ io[s].writes = 1
               /\ query[s].addr = AddressAt(s, Max(ValidAt(s)))
               /\ "on_done" \in pending[s] => ~Released(s) /\ sent[s] = <<>>
               /\ "on_done" \notin pending[s]
                     => /\ why[s] \in {"ok", "write"}
                        /\ unrefs[s] = 1
                        /\ why[s] = "ok" => /\ sent[s] = AddressAt(s, Max(ValidAt(s)))
                                            /\ ClosedSuccess(s)
                        /\ why[s] = "write" => Len(sent[s]) < ResSize

\* {name: "example.com", family: IPv4} against
\* {"Answer": [{"type": 1, "data": "93.184.216.34"}]}
C6_Witness ==
    \E s \in Sessions :
        /\ OneGoodRecord(s) /\ query[s].af = AF_INET
        /\ Len(Answers) = 1 /\ Answers[1].data = T4a
        /\ ClosedSuccess(s)
        /\ sent[s] = <<93, 184, 216, 34>> \o Zeros(ResSize - INADDRSZ)

(***************************************************************************)
(* C7, as claimed: a reply with a non-success HTTP status is treated as a  *)
(* transport failure: the body is not scanned and nothing is written,      *)
(* even when the body holds a record of the wanted type.                   *)
(***************************************************************************)
C7_NonSuccessStatusAborts ==
    (resolver.net = "ok" /\ resolver.status # 200)
        => \A s \in Sessions :
              io[s].writes = 0 /\ sent[s] = <<>> /\ ~query[s].ok

(***************************************************************************)
(* C8: when the body is not valid JSON, its root is no object, or the root *)
(* has no "Answer" array, the session fails: the array scan is not run, no *)
(* response is written, the connection is released.                        *)
(***************************************************************************)
NoAnswerArray == resolver.net = "ok" /\ ~HasArray

C8_ParseFailureAborts ==
    \A s \in Sessions :
        (NoAnswerArray /\ Resolved(s))
            => /\ why[s] = CASE resolver.body.kind = "garbage" -> "parse"
                             [] resolver.body.kind = "value" -> "root"
                             [] OTHER -> "answer"
               /\ ~query[s].ok /\ query[s].addr = Zeros(ResSize)
               /\ io[s].writes = 0 /\ sent[s] = <<>>
               /\ Ended(s) /\ unrefs[s] = 1 /\ frees[s] = 1

\* a reply that is a JSON object without "Answer"
C8_Witness ==
    \E s \in Sessions :
        /\ resolver.net = "ok" /\ resolver.body.kind = "object"
        /\ resolver.body.answer = "absent"
        /\ Resolved(s) /\ why[s] = "answer" /\ sent[s] = <<>>

(***************************************************************************)
(* C9, as claimed: in whichever step the session waits, once the timeout   *)
(* set at accept time has passed the pending step fails and the session    *)
(* goes to Closed(Failure).                                                *)
(***************************************************************************)
C9_TimeoutFailsPendingStep ==
    [][\A s \in Sessions :
          (timedOut[s] /\ pending'[s] # pending[s])
              => pending'[s] = {} /\ why'[s] \notin {"none", "ok"}]_vars

(***************************************************************************)
(* C10: a session goes through AwaitingRequest, Resolving,                 *)
(* AwaitingWriteback, Closed in this order, skipping none and revisiting   *)
(* none; it may fail to Closed from each of the three; Closed(Success) is  *)
(* entered from AwaitingWriteback only; Closed is terminal and a closed    *)
(* session starts no read, HTTPS request or write and sends no byte.       *)
(***************************************************************************)
Moves ==
    {<<"idle", "AwaitingRequest">>,
     <<"AwaitingRequest", "Resolving">>, <<"AwaitingRequest", "Closed">>,
     <<"Resolving", "AwaitingWriteback">>, <<"Resolving", "Closed">>,
     <<"AwaitingWriteback", "Closed">>}

C10_StateOrder ==
    [][\A s \in Sessions :
          /\ Phase(s)' # Phase(s) => <<Phase(s), Phase(s)'>> \in Moves
          /\ (Phase(s) # "Closed" /\ ClosedSuccess(s)')
                => Phase(s) = "AwaitingWriteback"
          /\ Phase(s) = "Closed"
                => /\ io'[s] = io[s] /\ sent'[s] = sent[s]
                   /\ pending'[s] = {} /\ why'[s] = why[s]]_vars

\* one session failed in AwaitingWriteback, another in AwaitingRequest
C10_Witness ==
    \E s, t \in Sessions :
        /\ ClosedFailure(s) /\ why[s] = "write"
        /\ ClosedFailure(t) /\ why[t] = "read"

(***************************************************************************)
(* C11: a session has at most one asynchronous operation outstanding at    *)
(* every moment: the request read, the HTTPS GET or the response write,    *)
(* each started only when the one before it has completed.  No two         *)
(* completion events are ever due for one session.                         *)
(***************************************************************************)
C11_OneOutstanding ==
    \A s \in Sessions :
        /\ pending[s] \subseteq {"on_req", "on_res", "on_done"}
        /\ Cardinality(pending[s]) <= 1
        /\ "on_req" \in pending[s] => io[s].gets = 0 /\ io[s].writes = 0
        /\ "on_res" \in pending[s] => io[s].reads = 1 /\ io[s].writes = 0
        /\ "on_done" \in pending[s] => io[s].reads = 1 /\ io[s].gets = 1

\* one session waits for its write, another for its HTTPS reply
C11_Witness ==
    \E s, t \in Sessions :
        /\ pending[s] = {"on_done"} /\ io[s].writes = 1
        /\ pending[t] = {"on_res"} /\ io[t].gets = 1

(***************************************************************************)
(* C12: sessions are isolated.  A step of one session (a completion event, *)
(* a failure, a release) changes nothing of any other session; the bytes a *)
(* peer receives are bytes of its own session's response buffer; whatever  *)
(* happened to the sessions before it, the next connection is accepted.    *)
(***************************************************************************)
Local(s) ==
    <<pending[s], query[s], unrefs[s], frees[s], io[s], sent[s], why[s],
      timedOut[s], frame[s], url[s], live[s]>>

\* the connection the listener accepts next
NextPeer(s) ==
    ~Accepted(s) /\ s <= peers /\ (IF s = 1 THEN TRUE ELSE Accepted(s - 1))

C12_SessionIsolation ==
    /\ [](\A s \in Sessions :
             /\ sent[s] = SubSeq(query[s].addr, 1, Len(sent[s]))
             /\ NextPeer(s) => ENABLED OnIncoming(s))
    /\ [][\A s, t \in Sessions :
             (s # t /\ Local(s)' # Local(s)) => Local(t)' = Local(t)]_vars

\* the first session failed on the resolver, the second one answered its
\* peer in full
C12_Witness ==
    \E s, t \in Sessions :
        /\ s < t
        /\ Ended(s) /\ why[s] = "transport" /\ sent[s] = <<>>
        /\ Ended(t) /\ why[t] = "ok" /\ sent[t] = query[t].addr

(***************************************************************************)
(* C13: per session at most one request read, at most one HTTPS GET and at *)
(* most one response write are started; after a failed HTTPS request or a  *)
(* failed write the session has ended with that one attempt.               *)
(***************************************************************************)
C13_NoRetry ==
    \A s \in Sessions :
        /\ io[s].reads <= 1 /\ io[s].gets <= 1 /\ io[s].writes <= 1
        /\ why[s] = "transport"
              => Ended(s) /\ io[s].gets = 1 /\ io[s].writes = 0
        /\ why[s] = "write" => Ended(s) /\ io[s].gets = 1 /\ io[s].writes = 1

\* one session ended on a failed HTTPS request, another on a failed write
C13_Witness ==
    \E s, t \in Sessions :
        /\ why[s] = "transport" /\ io[s].gets = 1 /\ Ended(s)
        /\ why[t] = "write" /\ io[t].writes = 1 /\ Ended(t)

(***************************************************************************)
(* The scan of the array, for the claims about the records it skips.       *)
(***************************************************************************)
\* the record type wanted for a family of the request
Wanted(af) == IF af = AF_INET THEN TYPE_A ELSE TYPE_AAAA

\* the query after on_res scanned the array elems for session s
ScanOf(s, elems) ==
    json_array_foreach_element(elems, 1,
        [QueryAtRes(query[s].af) EXCEPT !.ok = FALSE])

\* a record that declares a type other than the wanted one
WrongType(e, af) == e.obj /\ e.hasType /\ e.type # Wanted(af)

\* a record of the wanted type whose data is a string that is no address of
\* the family
Unparseable(e, af) ==
    /\ e.obj /\ e.hasType /\ e.type = Wanted(af)
    /\ e.hasData /\ e.isStr /\ ~ParsesAs(af, e.data)

\* a record without "type", without "data", or whose "data" is no string
Malformed(e) == ~e.obj \/ ~e.hasType \/ ~e.hasData \/ ~e.isStr

\* the records of the wanted type that parse, by the family alone
Good(s) ==
    {i \in 1..Len(Answers) :
        Valid(Answers[i], query[s].af, Wanted(query[s].af))}

\* the response buffer the scan must leave
Selected(s) ==
    IF Good(s) = {} THEN Zeros(ResSize) ELSE AddressAt(s, Max(Good(s)))

(***************************************************************************)
(* C14: the wanted record type is 1 exactly for an IPv4 request and 28     *)
(* exactly for an IPv6 request, and the URL asks for "A" resp. "AAAA".  A  *)
(* record that declares another type is skipped: the scan gives what it    *)
(* gives on the array without these records (flag and address), and the    *)
(* records after it are still scanned.                                     *)
(***************************************************************************)
C14_TypeByFamily ==
    \A s \in Sessions :
        /\ io[s].gets = 0 => url[s] = ""
        /\ io[s].gets > 0
              => /\ query[s].type \in {1, 28}
                 /\ query[s].type = 1 <=> query[s].af = AF_INET
                 /\ query[s].type = 28 <=> query[s].af = AF_INET6
                 /\ url[s] = "A" <=> query[s].af = AF_INET
                 /\ url[s] = "AAAA" <=> query[s].af = AF_INET6
        /\ Resolved(s)
              => /\ query[s] =
                       ScanOf(s, SelectSeq(Answers,
                                     LAMBDA e : ~WrongType(e, query[s].af)))
                 /\ query[s].ok = (Good(s) # {})
                 /\ query[s].addr = Selected(s)

\* an IPv6 request; the A records before and after the AAAA record carry
\* text that is an IPv6 address, and the AAAA record's address is sent
C14_Witness ==
    \E s \in Sessions :
        /\ query[s].af = AF_INET6 /\ query[s].type = 28 /\ url[s] = "AAAA"
        /\ Len(Answers) = 3
        /\ WrongType(Answers[1], AF_INET6) /\ Answers[1].data = T6a
        /\ Valid(Answers[2], AF_INET6, TYPE_AAAA) /\ Answers[2].data = T6b
        /\ WrongType(Answers[3], AF_INET6) /\ Answers[3].data = T6a
        /\ why[s] = "ok" /\ sent[s] = AddressOf(AF_INET6, T6b)

(***************************************************************************)
(* C15: a record of the wanted type whose data does not parse as an        *)
(* address of the requested family is skipped and is not fatal: the scan   *)
(* gives what it gives on the array without these records.  The session    *)
(* ends without a match exactly when the array is empty, has no record of  *)
(* the wanted type, or no record of the wanted type parses.                *)
(***************************************************************************)
C15_UnparseableSkipped ==
    \A s \in Sessions :
        Resolved(s)
            => /\ query[s] =
                     ScanOf(s, SelectSeq(Answers,
                                   LAMBDA e : ~Unparseable(e, query[s].af)))
               /\ why[s] = "nomatch" <=> ~query[s].ok
               /\ ~query[s].ok
                     <=> \/ Answers = <<>>
                         \/ TypedAt(s) = {}
                         \/ \A i \in TypedAt(s) :
                               ~Valid(Answers[i], query[s].af, query[s].type)

\* an address, then data that is no address: the address is sent
C15_Witness ==
    \E s \in Sessions :
        /\ query[s].af = AF_INET /\ Len(Answers) = 2
        /\ Valid(Answers[1], AF_INET, TYPE_A) /\ Answers[1].data = T4b
        /\ Unparseable(Answers[2], AF_INET)
        /\ why[s] = "ok" /\ sent[s] = AddressOf(AF_INET, T4b)

(***************************************************************************)
(* C16: in an array where a record of the wanted type with unparseable     *)
(* data follows a valid record of that type, the session ends without a    *)
(* response only if no later record parses (it never does: the earlier     *)
(* address stands and the response is written), and when a later record    *)
(* of the wanted type parses the address is that of the last such record.  *)
(***************************************************************************)
\* positions of unparseable records that follow a valid record
AfterValid(s) ==
    {j \in 1..Len(Answers) :
        /\ Unparseable(Answers[j], query[s].af)
        /\ \E i \in Good(s) : i < j}

C16_ValidThenInvalid ==
    \A s \in Sessions :
        (Resolved(s) /\ AfterValid(s) # {})
            => /\ \A j \in AfterValid(s) :
                     /\ why[s] = "nomatch" => ~\E k \in Good(s) : k > j
                     /\ (\E k \in Good(s) : k > j)
                           => /\ Max(Good(s)) > j
                              /\ query[s].addr = AddressAt(s, Max(Good(s)))
                              /\ why[s] = "ok"
                                    => sent[s] = AddressAt(s, Max(Good(s)))
               /\ query[s].ok /\ io[s].writes = 1
               /\ query[s].addr = AddressAt(s, Max(Good(s)))

\* valid, unparseable, valid with another address: the last address is sent
C16_Witness ==
    \E s \in Sessions :
        /\ query[s].af = AF_INET /\ Len(Answers) = 3
        /\ Answers[1].data = T4a /\ 1 \in Good(s)
        /\ 2 \in AfterValid(s)
        /\ Answers[3].data = T4b /\ 3 \in Good(s)
        /\ why[s] = "ok" /\ sent[s] = AddressOf(AF_INET, T4b)

(***************************************************************************)
(* C17: no use after release.  The query and the connection are not        *)
(* released while an operation that holds them is pending; no callback of  *)
(* a session runs once its query is freed; when on_res has started the     *)
(* write it returns with the query still allocated (its read of query->ok  *)
(* comes before on_done can run), and on_done frees it.                    *)
(***************************************************************************)
C17_NoUseAfterRelease ==
    /\ [](\A s \in Sessions :
             pending[s] # {} => frees[s] = 0 /\ unrefs[s] = 0)
    /\ [][\A s \in Sessions :
             /\ pending'[s] # pending[s] => frees[s] = 0 /\ unrefs[s] = 0
             /\ io'[s].writes > io[s].writes
                   => /\ pending'[s] = {"on_done"}
                      /\ frees'[s] = 0 /\ unrefs'[s] = 0
             /\ ("on_done" \in pending[s] /\ "on_done" \notin pending'[s])
                   => frees[s] = 0 /\ frees'[s] = 1 /\ unrefs'[s] = 1]_vars

\* on_done released a session whose write on_res had started
C17_Witness ==
    \E s \in Sessions :
        /\ io[s].writes = 1 /\ query[s].ok
        /\ pending[s] = {} /\ frees[s] = 1 /\ unrefs[s] = 1

(***************************************************************************)
(* C18: a response frame has ResSize bytes for an IPv4 and for an IPv6     *)
(* request alike; its bytes are those of the selected address, the others  *)
(* zero.  The buffer is all zero from on_incoming until a record parses,   *)
(* and for an IPv4 request the bytes after the first four stay zero.       *)
(***************************************************************************)
C18_FrameZeroFilled ==
    \A s \in Sessions :
        /\ Len(query[s].addr) = ResSize
        /\ ~query[s].ok => query[s].addr = Zeros(ResSize)
        /\ query[s].af # AF_INET6
              => \A i \in (INADDRSZ + 1)..ResSize : query[s].addr[i] = 0
        /\ query[s].ok
              => /\ HasArray /\ ValidAt(s) # {}
                 /\ query[s].addr = AddressAt(s, Max(ValidAt(s)))
        /\ why[s] = "ok"
              => /\ Len(sent[s]) = ResSize
                 /\ sent[s] = AddressAt(s, Max(ValidAt(s)))
                 /\ query[s].af = AF_INET
                       => /\ SubSeq(sent[s], 1, INADDRSZ)
                               = inet_pton4(Answers[Max(ValidAt(s))].data)
                          /\ \A i \in (INADDRSZ + 1)..ResSize : sent[s][i] = 0
                 /\ query[s].af = AF_INET6
                       => sent[s] = inet_pton6(Answers[Max(ValidAt(s))].data)

\* the frame of an IPv4 answer: four bytes of address and twelve zeros
C18_Witness ==
    \E s \in Sessions :
        /\ query[s].af = AF_INET /\ why[s] = "ok"
        /\ sent[s] = <<10, 0, 0, 7>> \o Zeros(ResSize - INADDRSZ)

(***************************************************************************)
(* C19: a record without "type", without "data", or whose "data" is no     *)
(* string is skipped and does not end the scan: the scan gives what it     *)
(* gives on the array without these records, and a record after it that    *)
(* parses still yields the response.                                       *)
(***************************************************************************)
C19_MalformedSkipped ==
    \A s \in Sessions :
        Resolved(s)
            => /\ query[s] =
                     ScanOf(s, SelectSeq(Answers, LAMBDA e : ~Malformed(e)))
               /\ \A j \in 1..Len(Answers) :
                     (Malformed(Answers[j]) /\ \E k \in Good(s) : k > j)
                         => /\ query[s].ok /\ io[s].writes = 1
                            /\ query[s].addr = AddressAt(s, Max(Good(s)))

\* a record without "type", one whose "data" is no string, then an address
C19_Witness ==
    \E s \in Sessions :
        /\ query[s].af = AF_INET /\ Len(Answers) = 3
        /\ ~Answers[1].hasType
        /\ Answers[2].hasType /\ Answers[2].hasData /\ ~Answers[2].isStr
        /\ 3 \in Good(s) /\ Answers[3].data = T4a
        /\ why[s] = "ok" /\ sent[s] = AddressOf(AF_INET, T4a)

(***************************************************************************)
(* C20, as claimed: when a session is Closed every object its callbacks    *)
(* created besides the connection and the query (the SoupSession, the      *)
(* SoupMessage, the stream of the reply, the JsonParser, a GError) has     *)
(* been released.                                                          *)
(***************************************************************************)
C20_NothingOutlivesSession ==
    \A s \in Sessions : Phase(s) = "Closed" => live[s] = {}

====
